---------------------------- MODULE Spec2Model ----------------------------
(***************************************************************************)
(* A model of the brainfuck! procedural macro (brainfuck-macro/src/lib.rs): *)
(* the macro constructs a BrainfuckInterpreter, calls execute on the        *)
(* program text and expands to the output literal or to a compile_error.    *)
(*                                                                          *)
(* Program indices are zero-based as in the source; a TLA+ sequence is      *)
(* one-based, so the character at index i is code[i + 1].  Option<usize>    *)
(* is modelled as a sequence: None is << >> and Some(x) is <<x>>.           *)
(*                                                                          *)
(* TAPE_SIZE (30_000) and MAX_STEPS (1_000_000) are compile-time constants  *)
(* of the source.  The model carries them as the configuration tape_size    *)
(* and max_steps, fixed by Init and never changed, so that the same         *)
(* transitions can be explored under small values.                          *)
(***************************************************************************)
EXTENDS Integers, Sequences, FiniteSets, TLC

VARIABLES
    code,        \* the program text handed to the macro (chars of the LitStr)
    tape_size,   \* TAPE_SIZE of this configuration
    max_steps,   \* MAX_STEPS of this configuration
    tape,        \* BrainfuckInterpreter.tape: Vec<u8>
    pointer,     \* BrainfuckInterpreter.pointer: usize
    output,      \* BrainfuckInterpreter.output: String, as a sequence of char codes
    jump_table,  \* execute's local jump_table: Vec<Option<usize>>
    ip,          \* execute's local instruction pointer
    steps,       \* execute's local step counter
    result,      \* the value execute returned, [tag |-> "Pending"] before it returns
    expansion,   \* what the macro expanded to, [kind |-> "none"] before it does
    pc,          \* "execute" | "run" | "returned" | "expanded"
    calls        \* number of macro invocations so far

vars == <<code, tape_size, max_steps, tape, pointer, output, jump_table,
          ip, steps, result, expansion, pc, calls>>

(***************************************************************************)
(* Bounds of the exploration.                                               *)
(***************************************************************************)
\* longest program explored by Spec
MaxLen == 4
\* SpecCalls (several invocations in a row): the longest program of the first
\* invocation and of the later ones
MaxFirstLen == 3
MaxCallLen == 2
\* tape capacity explored
TapeBound == 3
\* the two step limits explored
LowStepBound == 3
StepBound == 6
\* macro invocations explored by SpecCalls
MaxCalls == 2

\* const TAPE_SIZE: usize = 30_000; const MAX_STEPS: usize = 1_000_000;
TAPE_SIZE == 30000
MAX_STEPS == 1000000

\* the eight operators and one representative non-operator character
Operators == {">", "<", "+", "-", ".", ",", "[", "]"}
Alphabet == Operators \cup {"x"}

Programs(n) == UNION {[1..k -> Alphabet] : k \in 0..n}

\* chars[i] of execute, i zero-based
CharAt(c, i) == c[i + 1]

(***************************************************************************)
(* BrainfuckError and Result values.                                        *)
(***************************************************************************)
UnmatchedOpenBracket(p) == [tag |-> "UnmatchedOpenBracket", pos |-> p]
UnmatchedCloseBracket(p) == [tag |-> "UnmatchedCloseBracket", pos |-> p]
PointerUnderflow == [tag |-> "PointerUnderflow"]
PointerOverflow == [tag |-> "PointerOverflow"]
InputNotSupported == [tag |-> "InputNotSupported"]
MaxStepsExceeded == [tag |-> "MaxStepsExceeded"]

Pending == [tag |-> "Pending"]
Ok(v) == [tag |-> "Ok", value |-> v]
Err(e) == [tag |-> "Err", err |-> e]

\* impl Display for BrainfuckError: the text pieces and the number formatted in
Display(e) ==
    CASE e.tag = "UnmatchedOpenBracket" -> <<"Unmatched '[' at position ", e.pos>>
      [] e.tag = "UnmatchedCloseBracket" -> <<"Unmatched ']' at position ", e.pos>>
      [] e.tag = "PointerUnderflow" -> <<"Pointer moved below zero">>
      [] e.tag = "PointerOverflow" -> <<"Pointer moved beyond tape size (", tape_size, ")">>
      [] e.tag = "InputNotSupported" -> <<"Input operation ',' is not supported at compile time">>
      [] e.tag = "MaxStepsExceeded" -> <<"Execution exceeded maximum steps (", max_steps, ")">>

(***************************************************************************)
(* find_matching_brackets: one left-to-right pass with a stack of the       *)
(* indices of the '[' still open.                                           *)
(***************************************************************************)
\* Pop reading the bottom of the stack instead of the top
PopFront(stack) == IF stack = <<>> THEN <<>> ELSE <<stack[1]>>

\* stack.pop(): None on an empty stack, else Some(last)
Pop(stack) == IF stack = <<>> THEN <<>> ELSE <<stack[Len(stack)]>>

\* the stack left as it is: the top read without being removed
PoppedNothing(stack) == stack

\* the stack after stack.pop()
Popped(stack) == IF stack = <<>> THEN <<>> ELSE SubSeq(stack, 1, Len(stack) - 1)

\* vec![None; code.len()]: code.len() counts bytes, which is the number of chars
\* for an ASCII program and more otherwise; the scan and the loop index the table
\* by char index only, so the entries past the last char are never touched
EmptyTable(c) == [i \in 0..(Len(c) - 1) |-> <<>>]

\* Link recording only the entry of the '[': jump_table[open_pos] = Some(i)
LinkOneWay(jt, open_pos, i) == [jt EXCEPT ![open_pos] = <<i>>]

\* jump_table[open_pos] = Some(i); jump_table[i] = Some(open_pos);
Link(jt, open_pos, i) == [jt EXCEPT ![open_pos] = <<i>>, ![i] = <<open_pos>>]

\* CloseError reporting a one-based position
CloseErrorOneBased(i) == Err(UnmatchedCloseBracket(i + 1))

\* the error of a ']' met with an empty stack
CloseError(i) == Err(UnmatchedCloseBracket(i))

\* ScanEnd reporting the outermost '[' left open (the bottom of the stack)
ScanEndOutermost(jt, stack) ==
    IF Pop(stack) # <<>>
    THEN Err(UnmatchedOpenBracket(stack[1]))
    ELSE Ok(jt)

\* after the scan: the error if a '[' is still on the stack, else the table
ScanEnd(jt, stack) ==
    IF Pop(stack) # <<>>
    THEN Err(UnmatchedOpenBracket(Pop(stack)[1]))
    ELSE Ok(jt)

\* one pass of the for loop: the char at index i met in scan state s, which
\* holds the jump table, the stack and the early return (Pending while none)
ScanChar(c, i, s) ==
    CASE CharAt(c, i) = "[" -> [s EXCEPT !.stack = Append(@, i)]
      [] CharAt(c, i) = "]" ->
            IF Pop(s.stack) # <<>>
            THEN [s EXCEPT !.jt = Link(@, Pop(s.stack)[1], i), !.stack = Popped(@)]
            ELSE [s EXCEPT !.result = CloseError(i)]
      [] OTHER -> s

\* the passes for the indices lo..hi-1 in order, stopping at an early return (the
\* range is split in halves so that the evaluation nests only logarithmically deep)
RECURSIVE Scan(_, _, _, _)
Scan(c, s, lo, hi) ==
    IF s.result # Pending \/ lo >= hi THEN s
    ELSE IF hi = lo + 1 THEN ScanChar(c, lo, s)
    ELSE Scan(c, Scan(c, s, lo, (lo + hi) \div 2), (lo + hi) \div 2, hi)

find_matching_brackets(c) ==
    LET s == Scan(c, [result |-> Pending, jt |-> EmptyTable(c), stack |-> <<>>], 0, Len(c))
    IN  IF s.result # Pending THEN s.result ELSE ScanEnd(s.jt, s.stack)

(***************************************************************************)
(* BrainfuckInterpreter::new and the cell arithmetic.                       *)
(***************************************************************************)
\* vec![0; TAPE_SIZE]
NewTape(n) == [i \in 0..(n - 1) |-> 0]

\* BrainfuckInterpreter::new()
NewInterpreter == [tape |-> NewTape(tape_size), pointer |-> 0, output |-> <<>>]

\* the increment saturating at 255 instead of wrapping
SaturatingAdd(v) == IF v = 255 THEN 255 ELSE v + 1

\* u8::wrapping_add(1), u8::wrapping_sub(1)
WrappingAdd(v) == (v + 1) % 256
WrappingSub(v) == (v - 1) % 256

\* the step check written with > instead of >=
StepLimitOffByOne == steps > max_steps

\* if steps >= MAX_STEPS
StepLimitReached == steps >= max_steps

\* the right-end check written against TAPE_SIZE instead of TAPE_SIZE - 1
AtRightEndLate == pointer >= tape_size

\* if self.pointer >= TAPE_SIZE - 1
AtRightEnd == pointer >= tape_size - 1

\* if self.pointer == 0
AtLeftEnd == pointer = 0

(***************************************************************************)
(* execute.                                                                 *)
(***************************************************************************)
\* a return of execute: the locals and the interpreter are left as they are
Return(r) ==
    /\ result' = r
    /\ pc' = "returned"

\* Build dropping a bracket error and running on the table built so far
BuildIgnoringError ==
    /\ pc = "execute"
    /\ LET r == find_matching_brackets(code) IN
        jump_table' = IF r.tag = "Err" THEN EmptyTable(code) ELSE r.value
    /\ ip' = 0
    /\ steps' = 0
    /\ pc' = "run"
    /\ UNCHANGED <<code, tape_size, max_steps, tape, pointer, output, result,
                   expansion, calls>>

\* let jump_table = Self::find_matching_brackets(code)?; let mut ip = 0; let mut steps = 0;
Build ==
    /\ pc = "execute"
    /\ LET r == find_matching_brackets(code) IN
        IF r.tag = "Err"
        THEN /\ Return(r)
             /\ UNCHANGED <<jump_table, ip, steps>>
        ELSE /\ jump_table' = r.value
             /\ ip' = 0
             /\ steps' = 0
             /\ pc' = "run"
             /\ UNCHANGED result
    /\ UNCHANGED <<code, tape_size, max_steps, tape, pointer, output, expansion, calls>>

\* while ip < chars.len()
InLoop == pc = "run" /\ ip < Len(code)

\* if steps >= MAX_STEPS { return Err(MaxStepsExceeded) }
StepLimit ==
    /\ InLoop
    /\ StepLimitReached
    /\ Return(Err(MaxStepsExceeded))
    /\ UNCHANGED <<code, tape_size, max_steps, tape, pointer, output, jump_table,
                   ip, steps, expansion, calls>>

\* steps += 1; match chars[ip] { ch => ...
Dispatch(ch) ==
    /\ InLoop
    /\ ~StepLimitReached
    /\ CharAt(code, ip) = ch
    /\ steps' = steps + 1

\* Advance without the ip += 1 after a jump: the loop lands on the matching
\* bracket itself and dispatches it
AdvanceOntoBracket(target) ==
    /\ ip' = IF target = ip THEN ip + 1 ELSE target
    /\ UNCHANGED <<result, pc>>

\* the end of an iteration that did not return: ip += 1
Advance(target) ==
    /\ ip' = target + 1
    /\ UNCHANGED <<result, pc>>

\* Fail handing the output written so far back with the error
FailWithOutput(e) ==
    /\ Return([tag |-> "Err", err |-> e, value |-> output])
    /\ UNCHANGED ip

\* Fail recording the error and going on with the next instruction
FailAndContinue(e) ==
    /\ result' = Err(e)
    /\ ip' = ip + 1
    /\ UNCHANGED pc

\* a return from inside the match
Fail(e) ==
    /\ Return(Err(e))
    /\ UNCHANGED ip

\* MoveRight clamping at the right end instead of failing
MoveRightClamped ==
    /\ Dispatch(">")
    /\ pointer' = IF AtRightEnd THEN pointer ELSE pointer + 1
    /\ Advance(ip)
    /\ UNCHANGED <<code, tape_size, max_steps, tape, output, jump_table, expansion, calls>>

MoveRight ==
    /\ Dispatch(">")
    /\ IF AtRightEnd
       THEN Fail(PointerOverflow) /\ UNCHANGED pointer
       ELSE pointer' = pointer + 1 /\ Advance(ip)
    /\ UNCHANGED <<code, tape_size, max_steps, tape, output, jump_table, expansion, calls>>

MoveLeft ==
    /\ Dispatch("<")
    /\ IF AtLeftEnd
       THEN Fail(PointerUnderflow) /\ UNCHANGED pointer
       ELSE pointer' = pointer - 1 /\ Advance(ip)
    /\ UNCHANGED <<code, tape_size, max_steps, tape, output, jump_table, expansion, calls>>

\* Increment adding one to every cell of the tape instead of the current one
IncrementAll ==
    /\ Dispatch("+")
    /\ tape' = [k \in DOMAIN tape |-> WrappingAdd(tape[k])]
    /\ Advance(ip)
    /\ UNCHANGED <<code, tape_size, max_steps, pointer, output, jump_table, expansion, calls>>

Increment ==
    /\ Dispatch("+")
    /\ tape' = [tape EXCEPT ![pointer] = WrappingAdd(tape[pointer])]
    /\ Advance(ip)
    /\ UNCHANGED <<code, tape_size, max_steps, pointer, output, jump_table, expansion, calls>>

Decrement ==
    /\ Dispatch("-")
    /\ tape' = [tape EXCEPT ![pointer] = WrappingSub(tape[pointer])]
    /\ Advance(ip)
    /\ UNCHANGED <<code, tape_size, max_steps, pointer, output, jump_table, expansion, calls>>

\* Output writing the character at the front of the output
OutputPrepend ==
    /\ Dispatch(".")
    /\ output' = <<tape[pointer]>> \o output
    /\ Advance(ip)
    /\ UNCHANGED <<code, tape_size, max_steps, tape, pointer, jump_table, expansion, calls>>

\* self.output.push(self.tape[self.pointer] as char): the char whose code is the
\* cell's value, kept here as that code
Output ==
    /\ Dispatch(".")
    /\ output' = Append(output, tape[pointer])
    /\ Advance(ip)
    /\ UNCHANGED <<code, tape_size, max_steps, tape, pointer, jump_table, expansion, calls>>

\* Input failing only on a zero cell, and ignored otherwise
InputOnZeroCell ==
    /\ Dispatch(",")
    /\ IF tape[pointer] = 0 THEN Fail(InputNotSupported) ELSE Advance(ip)
    /\ UNCHANGED <<code, tape_size, max_steps, tape, pointer, output, jump_table,
                   expansion, calls>>

Input ==
    /\ Dispatch(",")
    /\ Fail(InputNotSupported)
    /\ UNCHANGED <<code, tape_size, max_steps, tape, pointer, output, jump_table,
                   expansion, calls>>

\* JumpTarget never taking the jump
JumpTargetNoJump(cond) == ip

\* if cond { if let Some(matching) = jump_table[ip] { ip = matching; } }
JumpTarget(cond) ==
    IF cond /\ jump_table[ip] # <<>> THEN jump_table[ip][1] ELSE ip

LoopOpen ==
    /\ Dispatch("[")
    /\ Advance(JumpTarget(tape[pointer] = 0))
    /\ UNCHANGED <<code, tape_size, max_steps, tape, pointer, output, jump_table,
                   expansion, calls>>

LoopClose ==
    /\ Dispatch("]")
    /\ Advance(JumpTarget(tape[pointer] # 0))
    /\ UNCHANGED <<code, tape_size, max_steps, tape, pointer, output, jump_table,
                   expansion, calls>>

\* Comment skipping the character without counting a step
CommentUncounted ==
    /\ InLoop
    /\ ~StepLimitReached
    /\ CharAt(code, ip) \notin Operators
    /\ steps' = steps
    /\ Advance(ip)
    /\ UNCHANGED <<code, tape_size, max_steps, tape, pointer, output, jump_table,
                   expansion, calls>>

\* Comment with the character taken for a '+'
CommentAsIncrement ==
    /\ \E ch \in Alphabet \ Operators : Dispatch(ch)
    /\ tape' = [tape EXCEPT ![pointer] = WrappingAdd(tape[pointer])]
    /\ Advance(ip)
    /\ UNCHANGED <<code, tape_size, max_steps, pointer, output, jump_table, expansion, calls>>

\* _ => {}
Comment ==
    /\ \E ch \in Alphabet \ Operators : Dispatch(ch)
    /\ Advance(ip)
    /\ UNCHANGED <<code, tape_size, max_steps, tape, pointer, output, jump_table,
                   expansion, calls>>

\* Finish checking the step limit once more at the end of the program
FinishUnlessOutOfSteps ==
    /\ pc = "run"
    /\ ~(ip < Len(code))
    /\ Return(IF StepLimitReached THEN Err(MaxStepsExceeded) ELSE Ok(output))
    /\ UNCHANGED <<code, tape_size, max_steps, tape, pointer, output, jump_table,
                   ip, steps, expansion, calls>>

\* the loop ends: Ok(self.output.clone())
Finish ==
    /\ pc = "run"
    /\ ~(ip < Len(code))
    /\ Return(Ok(output))
    /\ UNCHANGED <<code, tape_size, max_steps, tape, pointer, output, jump_table,
                   ip, steps, expansion, calls>>

(***************************************************************************)
(* execute as a function of the program: the value it returns when called   *)
(* on a new interpreter, computed by running the loop to its end.           *)
(***************************************************************************)
\* one pass of the while loop on the interpreter and locals st: the value
\* returned, Pending when the loop goes on, and st as the pass leaves it
LoopPass(c, jt, st) ==
    IF ~(st.ip < Len(c)) THEN [result |-> Ok(st.output), st |-> st]
    ELSE IF st.steps >= max_steps THEN [result |-> Err(MaxStepsExceeded), st |-> st]
    ELSE LET ch == CharAt(c, st.ip)
             cell == st.tape[st.pointer]
             s1 == [st EXCEPT !.steps = @ + 1]
             jump(cond) == IF cond /\ jt[st.ip] # <<>> THEN jt[st.ip][1] ELSE st.ip
             goon(s2) == [result |-> Pending, st |-> s2]
         IN  CASE ch = ">" ->
                    IF st.pointer >= tape_size - 1
                    THEN [result |-> Err(PointerOverflow), st |-> s1]
                    ELSE goon([s1 EXCEPT !.pointer = @ + 1, !.ip = @ + 1])
               [] ch = "<" ->
                    IF st.pointer = 0
                    THEN [result |-> Err(PointerUnderflow), st |-> s1]
                    ELSE goon([s1 EXCEPT !.pointer = @ - 1, !.ip = @ + 1])
               [] ch = "+" ->
                    goon([s1 EXCEPT !.tape[st.pointer] = WrappingAdd(cell), !.ip = @ + 1])
               [] ch = "-" ->
                    goon([s1 EXCEPT !.tape[st.pointer] = WrappingSub(cell), !.ip = @ + 1])
               [] ch = "." ->
                    goon([s1 EXCEPT !.output = Append(@, cell), !.ip = @ + 1])
               [] ch = "," -> [result |-> Err(InputNotSupported), st |-> s1]
               [] ch = "[" -> goon([s1 EXCEPT !.ip = jump(cell = 0) + 1])
               [] ch = "]" -> goon([s1 EXCEPT !.ip = jump(cell # 0) + 1])
               [] OTHER -> goon([s1 EXCEPT !.ip = @ + 1])

\* up to n passes of the loop from x, stopping at the return (the passes are
\* split in halves so that the evaluation nests only logarithmically deep)
RECURSIVE Passes(_, _, _, _)
Passes(c, jt, x, n) ==
    IF x.result # Pending \/ n = 0 THEN x
    ELSE IF n = 1 THEN LoopPass(c, jt, x.st)
    ELSE Passes(c, jt, Passes(c, jt, x, n \div 2), n - (n \div 2))

\* the loop run to the return of execute: at most max_steps dispatching passes
\* and the pass that returns
RunToEnd(c, jt, st) == Passes(c, jt, [result |-> Pending, st |-> st], max_steps + 1)

\* the value the loop returns
RunLoop(c, jt, st) == RunToEnd(c, jt, st).result

ExecuteNew(c) ==
    LET r == find_matching_brackets(c) IN
    IF r.tag = "Err" THEN r
    ELSE RunLoop(c, r.value,
                 [tape |-> NewInterpreter.tape, pointer |-> NewInterpreter.pointer,
                  output |-> NewInterpreter.output, ip |-> 0, steps |-> 0])

\* the while loop of execute from its current pass to the return, as one step
WhileLoop ==
    /\ pc = "run"
    /\ LET e == RunToEnd(code, jump_table,
                         [tape |-> tape, pointer |-> pointer, output |-> output,
                          ip |-> ip, steps |-> steps])
       IN  /\ Return(e.result)
           /\ tape' = e.st.tape
           /\ pointer' = e.st.pointer
           /\ output' = e.st.output
           /\ ip' = e.st.ip
           /\ steps' = e.st.steps
    /\ UNCHANGED <<code, tape_size, max_steps, jump_table, expansion, calls>>

(***************************************************************************)
(* The macro brainfuck!.                                                    *)
(***************************************************************************)
\* match interpreter.execute(&code) { Ok(output) => quote!(#output), Err(e) => compile_error!(..) }
Expanded(r) ==
    IF r.tag = "Ok"
    THEN [kind |-> "literal", value |-> r.value]
    ELSE [kind |-> "compile_error",
          msg |-> <<"Brainfuck execution error: ">> \o Display(r.err)]

Expand ==
    /\ pc = "returned"
    /\ expansion' = Expanded(result)
    /\ pc' = "expanded"
    /\ UNCHANGED <<code, tape_size, max_steps, tape, pointer, output, jump_table,
                   ip, steps, result, calls>>

\* the state of a macro invocation on program c before execute is called:
\* let mut interpreter = BrainfuckInterpreter::new();
Fresh(c) ==
    /\ code = c
    /\ tape = NewInterpreter.tape
    /\ pointer = NewInterpreter.pointer
    /\ output = NewInterpreter.output
    /\ jump_table = <<>>
    /\ ip = 0
    /\ steps = 0
    /\ result = Pending
    /\ expansion = [kind |-> "none"]
    /\ pc = "execute"

\* the interpreter of the previous invocation used again
ReusedInterpreter == [tape |-> tape, pointer |-> pointer, output |-> output]

\* the interpreter a further invocation works on:
\* let mut interpreter = BrainfuckInterpreter::new();
InvokedInterpreter == NewInterpreter

\* a further use of the macro, on any program
Invoke ==
    /\ pc = "expanded"
    /\ calls < MaxCalls
    /\ calls' = calls + 1
    /\ code' \in Programs(MaxCallLen)
    /\ tape' = InvokedInterpreter.tape
    /\ pointer' = InvokedInterpreter.pointer
    /\ output' = InvokedInterpreter.output
    /\ jump_table' = <<>>
    /\ ip' = 0
    /\ steps' = 0
    /\ result' = Pending
    /\ expansion' = [kind |-> "none"]
    /\ pc' = "execute"
    /\ UNCHANGED <<tape_size, max_steps>>

Config ==
    /\ tape_size = TapeBound
    /\ max_steps \in {LowStepBound, StepBound}
    /\ calls = 1

Init == Config /\ \E c \in Programs(MaxLen) : Fresh(c)

InitCalls == Config /\ \E c \in Programs(MaxFirstLen) : Fresh(c)

\* the program of test_hello_world and of the crate documentation
HelloWorld ==
    << "+", "+", "+", "+", "+", "+", "+", "+", "+", "+", "[", ">",
       "+", "+", "+", "+", "+", "+", "+", ">", "+", "+", "+", "+",
       "+", "+", "+", "+", "+", "+", ">", "+", "+", "+", ">", "+",
       "<", "<", "<", "<", "-", "]", ">", "+", "+", ".", ">", "+",
       ".", "+", "+", "+", "+", "+", "+", "+", ".", ".", "+", "+",
       "+", ".", ">", "+", "+", ".", "<", "<", "+", "+", "+", "+",
       "+", "+", "+", "+", "+", "+", "+", "+", "+", "+", "+", ".",
       ">", ".", "+", "+", "+", ".", "-", "-", "-", "-", "-", "-",
       ".", "-", "-", "-", "-", "-", "-", "-", "-", ".", ">", "+",
       ".", ">", "." >>

\* "Hello World!\n" as char codes
HelloWorldOutput == << 72, 101, 108, 108, 111, 32, 87, 111, 114, 108, 100, 33, 10 >>

\* the program of test_comments, every non-operator character written as x
CommentsProgram ==
    << "x", "x", "x", "x", "x", "x", "x", "x", "x", "x", "x", "x",
       "x", "x", "x", "x", "x", "x", "+", "+", "+", "x", "x", "x",
       "x", "x", "x", "x", "x", "x", "x", "x", ".", "x", "x", "x",
       "x", "x", "x", "x", "x", "x", "x", "x", "x", "x" >>

\* programs of the repository's tests
TestPrograms == {HelloWorld, CommentsProgram, <<>>, <<",">>, <<"<">>}

\* the tests run under the constants of the source; a loop that never ends is
\* run under the small step limit
InitTests ==
    /\ calls = 1
    /\ \/ /\ tape_size = TAPE_SIZE
          /\ max_steps = MAX_STEPS
          /\ \E c \in TestPrograms : Fresh(c)
       \/ /\ tape_size = TapeBound
          /\ max_steps = StepBound
          /\ Fresh(<<"+", "[", "]">>)

Execute ==
    \/ Build
    \/ StepLimit
    \/ MoveRight
    \/ MoveLeft
    \/ Increment
    \/ Decrement
    \/ Output
    \/ Input
    \/ LoopOpen
    \/ LoopClose
    \/ Comment
    \/ Finish

Next == Execute \/ Expand

NextCalls == Execute \/ Expand \/ Invoke

Spec == Init /\ [][Next]_vars

\* execute is straight-line sequential code: a step that can be taken is taken
FairSpec == Init /\ [][Next]_vars /\ WF_vars(Next)

SpecCalls == InitCalls /\ [][NextCalls]_vars

\* the tests, execute taken instruction by instruction or as one call
NextTests == Next \/ WhileLoop

SpecTests == InitTests /\ [][NextTests]_vars

(***************************************************************************)
(* Vocabulary of the properties.                                            *)
(***************************************************************************)
\* execute has returned
Returned == pc \in {"returned", "expanded"}

\* the loop is about to dispatch the character ch (it is not out of steps)
Dispatching(ch) ==
    /\ pc = "run"
    /\ ip < Len(code)
    /\ steps < max_steps
    /\ CharAt(code, ip) = ch

Indices(c) == 0..(Len(c) - 1)

Max(S) == CHOOSE x \in S : \A y \in S : y <= x
Min(S) == CHOOSE x \in S : \A y \in S : x <= y

Count(c, ch) == Cardinality({k \in Indices(c) : CharAt(c, k) = ch})

\* the number of '[' minus the number of ']' among the indices i..j
Bal(c, i, j) ==
    Cardinality({k \in i..j : CharAt(c, k) = "["})
        - Cardinality({k \in i..j : CharAt(c, k) = "]"})

\* some ']' occurs while no '[' is open
HasExcessClose(c) == \E j \in Indices(c) : Bal(c, 0, j) < 0

\* the first such ']'
FirstExcessClose(c) == Min({j \in Indices(c) : Bal(c, 0, j) < 0})

\* the '[' that no later ']' closes
UnmatchedOpens(c) ==
    {i \in Indices(c) : CharAt(c, i) = "[" /\ \A j \in i..(Len(c) - 1) : Bal(c, i, j) > 0}

ErrorTags ==
    {"UnmatchedOpenBracket", "UnmatchedCloseBracket", "PointerUnderflow",
     "PointerOverflow", "InputNotSupported", "MaxStepsExceeded"}

(***************************************************************************)
(* C1: every run of execute terminates, with an output or with one of the   *)
(* six tagged errors, and never dispatches more than the step limit.        *)
(* Checked under FairSpec.                                                  *)
(***************************************************************************)
C1_Terminates ==
    /\ [](steps <= max_steps)
    /\ <>(/\ Returned
          /\ \/ result.tag = "Ok"
             \/ result.tag = "Err" /\ result.err.tag \in ErrorTags)

\* a run that a never-ending loop drove to the step limit
C1_Witness ==
    /\ Returned
    /\ result = Err(MaxStepsExceeded)
    /\ steps = max_steps
    /\ \E i \in Indices(code) : CharAt(code, i) = "]"

(***************************************************************************)
(* C2, as claimed: every program that contains a ',' returns                *)
(* InputNotSupported.                                                       *)
(***************************************************************************)
C2_Original ==
    (Returned /\ Count(code, ",") > 0) => result = Err(InputNotSupported)

(***************************************************************************)
(* C2, amended: whenever a ',' is dispatched the run returns                *)
(* InputNotSupported, whatever the tape, pointer and output are; and        *)
(* InputNotSupported is returned only at a ','.                             *)
(***************************************************************************)
C2_InputFails ==
    /\ [][Dispatching(",") => (pc' = "returned" /\ result' = Err(InputNotSupported))]_vars
    /\ []((Returned /\ result = Err(InputNotSupported))
            => (ip < Len(code) /\ CharAt(code, ip) = ","))

\* a ',' that failed with a non-zero cell under a moved pointer, output written
C2_Witness ==
    /\ Returned
    /\ result = Err(InputNotSupported)
    /\ pointer # 0
    /\ tape[pointer] # 0
    /\ output # <<>>

(***************************************************************************)
(* C3, as claimed: every program with more '[' than ']' returns             *)
(* UnmatchedOpenBracket at the innermost '[' left unmatched.                *)
(***************************************************************************)
C3_Original ==
    (Returned /\ Count(code, "[") > Count(code, "]"))
        => result = Err(UnmatchedOpenBracket(Max(UnmatchedOpens(code))))

(***************************************************************************)
(* C3, amended: every program with more '[' than ']' in which no ']'        *)
(* occurs while no '[' is open returns UnmatchedOpenBracket(p), p the index *)
(* of the innermost (last opened) '[' left unmatched, not the outermost.    *)
(***************************************************************************)
C3_InnermostOpen ==
    (Returned /\ ~HasExcessClose(code) /\ Count(code, "[") > Count(code, "]"))
        => result = Err(UnmatchedOpenBracket(Max(UnmatchedOpens(code))))

\* two '[' are left unmatched and the inner one is reported
C3_Witness ==
    /\ Returned
    /\ result.tag = "Err"
    /\ result.err.tag = "UnmatchedOpenBracket"
    /\ \E i \in UnmatchedOpens(code) : i < result.err.pos

(***************************************************************************)
(* C4: every program in which some ']' occurs while no '[' is open returns  *)
(* UnmatchedCloseBracket(p), p the index of the first such ']', whatever    *)
(* follows it.                                                              *)
(***************************************************************************)
C4_FirstExcessClose ==
    (Returned /\ HasExcessClose(code))
        => result = Err(UnmatchedCloseBracket(FirstExcessClose(code)))

\* the reported ']' follows a matched pair and is followed by a '[' and a ','
C4_Witness ==
    /\ Returned
    /\ result.tag = "Err"
    /\ result.err.tag = "UnmatchedCloseBracket"
    /\ result.err.pos > 0
    /\ result.err.pos < Len(code) - 1
    /\ \E k \in Indices(code) : k > result.err.pos /\ CharAt(code, k) \in {"[", "]", ","}

(***************************************************************************)
(* C5, as claimed: every program that contains a loop whose body never      *)
(* mutates a cell (no '+', no '-') runs to the step limit and returns       *)
(* MaxStepsExceeded.                                                        *)
(***************************************************************************)
NonMutatingLoop(i) ==
    /\ CharAt(code, i) = "["
    /\ jump_table[i] # <<>>
    /\ \A k \in (i + 1)..(jump_table[i][1] - 1) : CharAt(code, k) \notin {"+", "-"}

C5_Original ==
    (Returned /\ \E i \in DOMAIN jump_table : NonMutatingLoop(i))
        => result = Err(MaxStepsExceeded)

(***************************************************************************)
(* C5, amended: a loop that is entered (the current cell is non-zero at its *)
(* '[') and whose body holds only '.', non-operator characters and nested   *)
(* loops of the same kind never exits: from then on every step dispatches   *)
(* one more instruction of the loop, cell and pointer unchanged, until the  *)
(* step counter reaches the limit, and the run then returns                 *)
(* MaxStepsExceeded and no output.                                          *)
(***************************************************************************)
InertLoop(i) ==
    /\ CharAt(code, i) = "["
    /\ jump_table[i] # <<>>
    /\ \A k \in (i + 1)..(jump_table[i][1] - 1) :
            CharAt(code, k) \notin {">", "<", "+", "-", ","}

InsideInertLoop ==
    /\ pc = "run"
    /\ tape[pointer] # 0
    /\ \E i \in DOMAIN jump_table : InertLoop(i) /\ i <= ip /\ ip <= jump_table[i][1]

C5_InertLoopRuns ==
    [][InsideInertLoop =>
          \/ /\ steps < max_steps
             /\ steps' = steps + 1
             /\ InsideInertLoop'
             /\ tape' = tape
             /\ pointer' = pointer
          \/ /\ steps = max_steps
             /\ pc' = "returned"
             /\ result' = Err(MaxStepsExceeded)]_vars

\* such a loop wrote output on its way to the limit, and none is returned
C5_Witness ==
    /\ Returned
    /\ result = Err(MaxStepsExceeded)
    /\ output # <<>>
    /\ \E i \in DOMAIN jump_table : InertLoop(i) /\ i < ip /\ ip <= jump_table[i][1]

(***************************************************************************)
(* C6: '<' dispatched at pointer 0 returns PointerUnderflow, '>' dispatched *)
(* at pointer capacity - 1 returns PointerOverflow; in every other state    *)
(* '<' and '>' move the pointer by exactly one and do not fail.             *)
(***************************************************************************)
C6_PointerMoves ==
    [][/\ (Dispatching("<") /\ pointer = 0)
            => (pc' = "returned" /\ result' = Err(PointerUnderflow))
       /\ (Dispatching("<") /\ pointer # 0)
            => (pc' = "run" /\ result' = Pending /\ pointer' = pointer - 1)
       /\ (Dispatching(">") /\ pointer = tape_size - 1)
            => (pc' = "returned" /\ result' = Err(PointerOverflow))
       /\ (Dispatching(">") /\ pointer # tape_size - 1)
            => (pc' = "run" /\ result' = Pending /\ pointer' = pointer + 1)]_vars

\* a '>' failed at the last cell
C6_Witness ==
    /\ Returned
    /\ result = Err(PointerOverflow)
    /\ pointer = tape_size - 1
    /\ CharAt(code, ip) = ">"

(***************************************************************************)
(* C7: '+' and '-' set the current cell to (v + 1) mod 256 and              *)
(* (v - 1) mod 256, never fail, and every cell stays in 0..255.             *)
(***************************************************************************)
WrapsModulo256 ==
    \A v \in 0..255 :
        /\ WrappingAdd(v) = (IF v = 255 THEN 0 ELSE v + 1)
        /\ WrappingSub(v) = (IF v = 0 THEN 255 ELSE v - 1)

C7_CellsWrap ==
    /\ [](WrapsModulo256 /\ \A i \in DOMAIN tape : tape[i] \in 0..255)
    /\ [][/\ Dispatching("+")
              => /\ pc' = "run" /\ result' = Pending
                 /\ tape' = [tape EXCEPT ![pointer] = (tape[pointer] + 1) % 256]
          /\ Dispatching("-")
              => /\ pc' = "run" /\ result' = Pending
                 /\ tape' = [tape EXCEPT ![pointer] = (tape[pointer] + 255) % 256]]_vars

\* "-+" has run: the cell went 0, 255, 0
C7_Witness ==
    /\ pc = "run"
    /\ steps = 2
    /\ ip = 2
    /\ CharAt(code, 0) = "-"
    /\ CharAt(code, 1) = "+"
    /\ tape[pointer] = 0

(***************************************************************************)
(* C8: dispatching a character that is none of the eight operators leaves   *)
(* tape, pointer and output unchanged, wherever it stands, and never fails. *)
(***************************************************************************)
C8_CommentsInert ==
    [][(\E ch \in Alphabet \ Operators : Dispatching(ch))
          => /\ tape' = tape
             /\ pointer' = pointer
             /\ output' = output
             /\ pc' = "run"
             /\ result' = Pending
             /\ ip' = ip + 1]_vars

\* a comment character inside the body of a running loop has just been dispatched
C8_Witness ==
    /\ pc = "run"
    /\ ip > 0
    /\ CharAt(code, ip - 1) \notin Operators
    /\ tape[pointer] # 0
    /\ \E i \in DOMAIN jump_table :
          CharAt(code, i) = "[" /\ i < ip - 1 /\ ip - 1 < jump_table[i][1]

(***************************************************************************)
(* C9: whenever a run fails, what execute returns is the tagged error and   *)
(* nothing else, and the macro expands to a compile_error built from that   *)
(* error alone: none of the output written before the failure is returned.  *)
(***************************************************************************)
ErrorValues ==
    {PointerUnderflow, PointerOverflow, InputNotSupported, MaxStepsExceeded}
        \cup {UnmatchedOpenBracket(p) : p \in Indices(code)}
        \cup {UnmatchedCloseBracket(p) : p \in Indices(code)}

C9_AllOrNothing ==
    (Returned /\ result.tag # "Ok")
        => /\ result \in {Err(e) : e \in ErrorValues}
           /\ pc = "expanded"
                => /\ DOMAIN expansion = {"kind", "msg"}
                   /\ expansion.kind = "compile_error"
                   /\ expansion.msg \in
                          {<<"Brainfuck execution error: ">> \o Display(e) : e \in ErrorValues}

\* output had been written when the run failed
C9_Witness ==
    /\ pc = "expanded"
    /\ result.tag = "Err"
    /\ output # <<>>

(***************************************************************************)
(* C10: nothing is carried from one invocation to the next: every           *)
(* invocation starts execute on an all-zero tape, pointer 0 and empty       *)
(* output, and whatever was executed before, the result for a program is    *)
(* the one execute gives it on a new interpreter.  Checked under SpecCalls. *)
(***************************************************************************)
C10_NoStateAcrossCalls ==
    /\ pc = "execute"
          => /\ \A i \in DOMAIN tape : tape[i] = 0
             /\ pointer = 0
             /\ output = <<>>
    /\ Returned => result = ExecuteNew(code)

\* a later invocation has returned output
C10_Witness ==
    /\ calls > 1
    /\ Returned
    /\ result.tag = "Ok"
    /\ result.value # <<>>

(***************************************************************************)
(* C11: a program whose brackets are unbalanced returns                     *)
(* UnmatchedOpenBracket or UnmatchedCloseBracket before any instruction is  *)
(* dispatched, even when an earlier instruction would have failed at run    *)
(* time: the loop is never entered, no step is counted and the interpreter  *)
(* is untouched.                                                            *)
(***************************************************************************)
Unbalanced(c) == HasExcessClose(c) \/ Count(c, "[") # Count(c, "]")

C11_StructuralFirst ==
    /\ (pc = "run") => ~Unbalanced(code)
    /\ (Returned /\ Unbalanced(code))
          => /\ result.tag = "Err"
             /\ result.err.tag \in {"UnmatchedOpenBracket", "UnmatchedCloseBracket"}
             /\ steps = 0
             /\ ip = 0
             /\ pointer = 0
             /\ output = <<>>
             /\ \A i \in DOMAIN tape : tape[i] = 0

\* the bracket error of a program that starts with a '<' or a ','
C11_Witness ==
    /\ Returned
    /\ Len(code) > 1
    /\ CharAt(code, 0) \in {"<", ","}
    /\ result.tag = "Err"
    /\ result.err.tag \in {"UnmatchedOpenBracket", "UnmatchedCloseBracket"}
    /\ result.err.pos > 0

(***************************************************************************)
(* C12: with capacity 30000 and step limit 1000000 the Hello World program  *)
(* ends normally and returns exactly the 13 characters "Hello World!\n",    *)
(* which the macro expands to.  Checked under SpecTests.                    *)
(***************************************************************************)
C12_HelloWorld ==
    (code = HelloWorld /\ tape_size = TAPE_SIZE /\ max_steps = MAX_STEPS)
        => /\ Returned => result = Ok(HelloWorldOutput)
           /\ (pc = "expanded")
                 => expansion = [kind |-> "literal", value |-> HelloWorldOutput]
           /\ Len(output) <= 13

\* the run of Hello World has returned
C12_Witness ==
    /\ code = HelloWorld
    /\ tape_size = 30000
    /\ max_steps = 1000000
    /\ pc = "expanded"
    /\ result.tag = "Ok"
    /\ Len(result.value) = 13

(***************************************************************************)
(* C13: for every program accepted by find_matching_brackets the jump table *)
(* is an involution on bracket positions: every index i holding '[' or ']'  *)
(* has an entry, and the entry of its entry is i; every entry the table     *)
(* holds maps back the same way.                                            *)
(***************************************************************************)
\* find_matching_brackets returned Ok: the run is in the loop or past it
Accepted ==
    /\ pc # "execute"
    /\ ~(/\ result.tag = "Err"
         /\ result.err.tag \in {"UnmatchedOpenBracket", "UnmatchedCloseBracket"})

Brackets(c) == {i \in Indices(c) : CharAt(c, i) \in {"[", "]"}}

C13_Involution ==
    Accepted =>
        /\ \A i \in Brackets(code) :
              /\ jump_table[i] # <<>>
              /\ jump_table[i][1] \in Indices(code)
              /\ jump_table[jump_table[i][1]] = <<i>>
        /\ \A i \in DOMAIN jump_table :
              jump_table[i] # <<>> => jump_table[jump_table[i][1]] = <<i>>

\* a nested pair accepted: [[]] with 0 <-> 3 and 1 <-> 2
C13_Witness ==
    /\ pc = "run"
    /\ code = <<"[", "[", "]", "]">>
    /\ jump_table[0] = <<3>>
    /\ jump_table[3] = <<0>>
    /\ jump_table[1] = <<2>>
    /\ jump_table[2] = <<1>>

(***************************************************************************)
(* C14: a program with balanced brackets is accepted, and its table is      *)
(* complete and structurally correct: it has an entry exactly at the        *)
(* indices holding '[' or ']'; each '[' at i maps to the ']' at the first   *)
(* j > i that closes it, the brackets strictly between i and j being        *)
(* balanced, and that ']' maps back to i; so a bracket the loop is about to *)
(* dispatch always has its entry.                                           *)
(***************************************************************************)
\* the reference matching by nesting: the first index after i where the '['
\* at i is closed
MatchClose(c, i) == Min({j \in (i + 1)..(Len(c) - 1) : Bal(c, i, j) = 0})

\* the brackets among the indices i..j are balanced: none closes more than is open
BalancedBetween(c, i, j) ==
    /\ Bal(c, i, j) = 0
    /\ \A k \in i..j : Bal(c, i, k) >= 0

C14_CompleteTable ==
    /\ (pc # "execute" /\ ~Unbalanced(code)) => Accepted
    /\ Accepted =>
          /\ DOMAIN jump_table = Indices(code)
          /\ \A i \in Indices(code) : (jump_table[i] # <<>>) <=> (i \in Brackets(code))
          /\ \A i \in Indices(code) :
                CharAt(code, i) = "[" =>
                    /\ jump_table[i] = <<MatchClose(code, i)>>
                    /\ jump_table[MatchClose(code, i)] = <<i>>
                    /\ LET j == jump_table[i][1] IN
                          /\ j > i
                          /\ CharAt(code, j) = "]"
                          /\ BalancedBetween(code, i + 1, j - 1)
    /\ (Dispatching("[") \/ Dispatching("]")) => jump_table[ip] # <<>>

\* the ']' of +[-] about to be dispatched, its entry there and none at + and -
C14_Witness ==
    /\ code = <<"+", "[", "-", "]">>
    /\ Dispatching("]")
    /\ jump_table = [i \in 0..3 |-> IF i = 1 THEN <<3>> ELSE IF i = 3 THEN <<1>> ELSE <<>>]

(***************************************************************************)
(* C15: in every reachable state 0 <= pointer < capacity, the tape has      *)
(* exactly the cells 0..capacity-1, so the current cell always exists: no   *)
(* sequence of '>' and '<' moves the pointer off the tape.                  *)
(***************************************************************************)
C15_PointerInBounds ==
    /\ 0 <= pointer
    /\ pointer < tape_size
    /\ DOMAIN tape = 0..(tape_size - 1)
    /\ pointer \in DOMAIN tape

\* a '>' refused at the last cell: the pointer stays on it
C15_Witness ==
    /\ Returned
    /\ result = Err(PointerOverflow)
    /\ pointer = tape_size - 1
    /\ steps = tape_size

(***************************************************************************)
(* C16: loop control flow. A '[' dispatched on a zero cell continues right  *)
(* after its matching ']' (neither the body nor that ']' is dispatched); a  *)
(* ']' dispatched on a non-zero cell continues right after its matching '[' *)
(* (the '[' is not dispatched again); a '[' on a non-zero cell and a ']' on *)
(* a zero cell continue at the next index. A bracket changes nothing else   *)
(* than the position and the step count.                                    *)
(***************************************************************************)
\* the '[' that the ']' at j closes, by the reference matching
MatchOpen(c, j) ==
    CHOOSE i \in 0..(j - 1) : CharAt(c, i) = "[" /\ MatchClose(c, i) = j

C16_LoopControl ==
    [][/\ (Dispatching("[") /\ tape[pointer] = 0) => ip' = MatchClose(code, ip) + 1
       /\ (Dispatching("]") /\ tape[pointer] # 0) => ip' = MatchOpen(code, ip) + 1
       /\ (Dispatching("[") /\ tape[pointer] # 0) => ip' = ip + 1
       /\ (Dispatching("]") /\ tape[pointer] = 0) => ip' = ip + 1
       /\ (Dispatching("[") \/ Dispatching("]"))
             => /\ pc' = "run"
                /\ steps' = steps + 1
                /\ UNCHANGED <<tape, pointer, output, result>>]_vars

\* +[x]: the ']' dispatched on cell 1 has sent the loop to the x after the '['
C16_Witness ==
    /\ code = <<"+", "[", "x", "]">>
    /\ pc = "run"
    /\ tape[pointer] = 1
    /\ ip = 2
    /\ steps = 4

(***************************************************************************)
(* C17: the step-limit boundary. The limit is checked before each dispatch  *)
(* and only while instructions remain: a run at the end of the program      *)
(* returns its output even with the step count at the limit; a run with an  *)
(* instruction left and the step count at the limit returns                 *)
(* MaxStepsExceeded; MaxStepsExceeded is returned only with the step count  *)
(* at the limit, never below it.                                            *)
(***************************************************************************)
C17_StepLimitBoundary ==
    /\ []((Returned /\ result = Err(MaxStepsExceeded))
              => (steps = max_steps /\ ip < Len(code)))
    /\ []((Returned /\ ~(ip < Len(code))) => result = Ok(output))
    /\ [][/\ (pc = "run" /\ ~(ip < Len(code)))
                => (pc' = "returned" /\ result' = Ok(output))
          /\ (pc = "run" /\ ip < Len(code) /\ steps = max_steps)
                => (pc' = "returned" /\ result' = Err(MaxStepsExceeded))
          /\ (pc = "run" /\ steps' # steps) => steps < max_steps]_vars

\* a run that needed exactly max_steps dispatches to reach the end and wrote output
C17_Witness ==
    /\ Returned
    /\ steps = max_steps
    /\ result.tag = "Ok"
    /\ result.value # <<>>
    /\ ip = Len(code)

(***************************************************************************)
(* C18: the output is append-only. It is empty when the run starts; each    *)
(* step leaves the output it had as a prefix of the new one; it grows only  *)
(* when '.' is dispatched, by the one character whose code is the current   *)
(* cell; the output returned on success is the output so accumulated, that  *)
(* is the cell values at the '.' dispatches in dispatch order.              *)
(***************************************************************************)
IsPrefix(s, t) == Len(s) <= Len(t) /\ SubSeq(t, 1, Len(s)) = s

C18_OutputAppendOnly ==
    /\ [](pc = "execute" => output = <<>>)
    /\ []((Returned /\ result.tag = "Ok") => result.value = output)
    /\ [][/\ IsPrefix(output, output')
          /\ Dispatching(".") => output' = Append(output, tape[pointer])
          /\ ~Dispatching(".") => output' = output]_vars

\* two '.' dispatched on different cell values, returned in dispatch order
C18_Witness ==
    /\ Returned
    /\ code = <<"+", ".", "+", ".">>
    /\ result = Ok(<<1, 2>>)

(***************************************************************************)
(* C19: fail-fast. An instruction that fails returns its error at once; the *)
(* loop never runs on after an error; once the run has returned nothing is  *)
(* dispatched any more; so the error returned is the one of the first       *)
(* failing instruction in dispatch order, whatever follows it in the        *)
(* program.                                                                 *)
(***************************************************************************)
\* the instruction the loop is about to dispatch fails with error e
Failing(e) ==
    \/ e = PointerUnderflow /\ Dispatching("<") /\ pointer = 0
    \/ e = PointerOverflow /\ Dispatching(">") /\ pointer = tape_size - 1
    \/ e = InputNotSupported /\ Dispatching(",")

RuntimeErrors == {PointerUnderflow, PointerOverflow, InputNotSupported}

C19_FailFast ==
    /\ [](pc \in {"execute", "run"} => result = Pending)
    /\ [][/\ \A e \in RuntimeErrors :
                Failing(e) => (pc' = "returned" /\ result' = Err(e))
          /\ (pc = "run" /\ pc' = "returned" /\ result'.tag = "Err"
                 /\ result'.err \in RuntimeErrors)
                => Failing(result'.err)
          /\ Returned => (Returned' /\ UNCHANGED <<result, steps, ip, tape, pointer, output>>)]_vars

\* a '<' failing at cell 0 as the first dispatch, with a ',' after it in the program
C19_Witness ==
    /\ Returned
    /\ result = Err(PointerUnderflow)
    /\ steps = 1
    /\ CharAt(code, 0) = "<"
    /\ \E k \in Indices(code) : k > 0 /\ CharAt(code, k) = ","

(***************************************************************************)
(* C20: the step counter counts every dispatched character. It is 0 when    *)
(* the run starts, never exceeds the step limit, grows by exactly 1 at each *)
(* dispatch (operators, non-operator characters, brackets that jump and     *)
(* instructions that fail alike) and changes at no other step. So comment   *)
(* characters use up the step budget: a program can fail with               *)
(* MaxStepsExceeded while the same program without its non-operator         *)
(* characters succeeds.                                                     *)
(***************************************************************************)
IsOperator(ch) == ch \in Operators

\* the program with its non-operator characters removed
Strip(c) == SelectSeq(c, IsOperator)

\* the loop is about to dispatch a character
DispatchingAny == \E ch \in Alphabet : Dispatching(ch)

C20_StepCounter ==
    /\ [](pc = "execute" => steps = 0)
    /\ [](0 <= steps /\ steps <= max_steps)
    /\ [][/\ DispatchingAny => steps' = steps + 1
          /\ ~DispatchingAny => steps' = steps]_vars

\* out of steps because of a comment character: the stripped program succeeds
C20_Witness ==
    /\ Returned
    /\ result = Err(MaxStepsExceeded)
    /\ Strip(code) # code
    /\ ExecuteNew(Strip(code)).tag = "Ok"

(***************************************************************************)
(* C21: each operator changes only its own part of the state. A '>' or '<'  *)
(* that succeeds leaves the tape and the output as they are; '+' and '-'    *)
(* change the cell under the pointer and leave every other cell, the        *)
(* pointer and the output as they are; '.' leaves the tape and the pointer; *)
(* '[' and ']' leave the tape, the pointer and the output, moving only the  *)
(* instruction index (the step count grows at every dispatch alike); the    *)
(* program is never modified, nor the jump table once the loop runs.        *)
(***************************************************************************)
\* the tape differs from t at the index p and nowhere else
OnlyCellChanged(t, p) ==
    /\ DOMAIN tape' = DOMAIN t
    /\ tape'[p] # t[p]
    /\ \A k \in DOMAIN t \ {p} : tape'[k] = t[k]

C21_FrameEffects ==
    [][/\ ((Dispatching(">") \/ Dispatching("<")) /\ pc' = "run")
             => UNCHANGED <<tape, output>>
       /\ (Dispatching("+") \/ Dispatching("-"))
             => (OnlyCellChanged(tape, pointer) /\ UNCHANGED <<pointer, output>>)
       /\ Dispatching(".") => UNCHANGED <<tape, pointer>>
       /\ (Dispatching("[") \/ Dispatching("]"))
             => UNCHANGED <<tape, pointer, output>>
       /\ UNCHANGED code
       /\ (pc = "run") => UNCHANGED jump_table]_vars

\* +>+ run: the second '+' has changed cell 1 and left cell 0 at 1
C21_Witness ==
    /\ code = <<"+", ">", "+", ".">>
    /\ pc = "run"
    /\ ip = 3
    /\ pointer = 1
    /\ tape[0] = 1
    /\ tape[1] = 1
    /\ output = <<>>

=============================================================================
